---------------------------- MODULE Spec2Model ----------------------------
(***************************************************************************)
(* Model of src/main.py: a FastAPI service over three relational tables    *)
(* (users, medicines, user_medicine).  The tables are seeded by init_db at *)
(* import time; two handlers, add_medicines_to_user and buy_medicines,     *)
(* associate medicines with a user.                                        *)
(*                                                                         *)
(* A table with an autoincrement integer key is a sequence: the row with   *)
(* id i is the i-th element.  user_medicine is a bag of <<user_id,         *)
(* medicine_id>> rows, so that a duplicate row is representable and the    *)
(* composite primary key is something the flush has to enforce.  A SELECT  *)
(* without ORDER BY returns rows in primary-key order.                     *)
(*                                                                         *)
(* Handlers run in a thread pool, so requests interleave at the database   *)
(* statements that read or write user_medicine: the reads (one step), the  *)
(* flush and COMMIT (one step, the database serialises writers), and the   *)
(* reload of expired objects after the commit (one step).                  *)
(***************************************************************************)
EXTENDS Integers, Sequences, FiniteSets, Bags, TLC

\* Bounds of the model.
MaxReq == 2      \* request slots (worker threads) of the serving process
MaxNames == 2    \* longest medicine_names list a client sends
MaxInst == 3     \* processes sharing the datastore in the multi-instance run

Req == 1..MaxReq
Inst == 1..MaxInst
\* The process whose worker threads are modelled: the first.
Server == CHOOSE i \in Inst : \A j \in Inst : i <= j

\* What clients send: user ids 1 and 2 exist after seeding, 5 never does;
\* "Aspirin" is the name of no medicine.
ClientUserIds == {1, 2, 5}
ClientNames == {"Paracetamol", "Broufen", "Aspirin"}
NameLists == UNION {[1..n -> ClientNames] : n \in 0..MaxNames}

\* What the concurrent clients send: calls for the same user (1, or 5 who
\* does not exist) that share medicines, the calls that can meet in
\* user_medicine.
RaceUserIds == {1, 5}
RaceLists == {<<"Paracetamol">>, <<"Broufen">>, <<"Paracetamol", "Broufen">>}

SampleMedicines == <<"Paracetamol", "Broufen", "Panadol", "Alp", "Calpol">>
SampleUsers == <<"John Doe", "Jane Smith", "Bjorn", "Ali">>

VARIABLES
  medicines,      \* table medicines: medicines[i] is the name of the row with id i
  users,          \* table users: users[i] is the name of the row with id i
  user_medicine,  \* table user_medicine: a bag of <<user_id, medicine_id>> rows
  ipc,            \* ipc[i]: where process i is in init_db, or "serving"
  pc,             \* pc[r]: where the handler of slot r is, or how it ended
  op,             \* op[r]: "add" or "buy", the endpoint slot r serves
  user,           \* user[r]: id of the handler's user object
  new,            \* new[r]: the handler's new_medicines, as medicine ids
  result,         \* result[r]: the names in the handler's response body
  call,           \* history: the arguments of the observed client's latest call
  before,         \* history: user_medicine when that call arrived
  again           \* history: that call repeats the one before it, which succeeded

db == <<medicines, users, user_medicine>>
slots == <<pc, op, user, new, result>>
history == <<call, before, again>>
vars == <<medicines, users, user_medicine, ipc, pc, op, user, new, result,
          call, before, again>>

Range(s) == {s[i] : i \in 1..Len(s)}

NoCall == [op |-> "none", user_id |-> 0, medicine_names |-> <<>>]

Terminal == {"done", "err_user", "err_medicine", "err_storage"}

Init ==
  /\ medicines = <<>>
  /\ users = <<>>
  /\ user_medicine = EmptyBag
  /\ ipc = [i \in Inst |-> "boot"]
  /\ pc = [r \in Req |-> "idle"]
  /\ op = [r \in Req |-> "none"]
  /\ user = [r \in Req |-> 0]
  /\ new = [r \in Req |-> <<>>]
  /\ result = [r \in Req |-> <<>>]
  /\ call = NoCall
  /\ before = EmptyBag
  /\ again = FALSE

---------------------------------------------------------------------------
(* init_db *)

\* CheckMedicines as it would be without the test for an empty table.
CheckMedicinesAlways(i) ==
  /\ ipc[i] = "boot"
  /\ ipc' = [ipc EXCEPT ![i] = "seed_medicines"]
  /\ UNCHANGED <<db, slots>>

\* if not db.query(Medicine).first()
CheckMedicines(i) ==
  /\ ipc[i] = "boot"
  /\ ipc' = [ipc EXCEPT ![i] = IF medicines = <<>> THEN "seed_medicines"
                                                   ELSE "check_users"]
  /\ UNCHANGED <<db, slots>>

\* db.add_all(medicines); db.commit()
SeedMedicines(i) ==
  /\ ipc[i] = "seed_medicines"
  /\ medicines' = medicines \o SampleMedicines
  /\ ipc' = [ipc EXCEPT ![i] = "check_users"]
  /\ UNCHANGED <<users, user_medicine, slots>>

\* if not db.query(User).first(); db.close() when the table has rows
CheckUsers(i) ==
  /\ ipc[i] = "check_users"
  /\ ipc' = [ipc EXCEPT ![i] = IF users = <<>> THEN "seed_users" ELSE "serving"]
  /\ UNCHANGED <<db, slots>>

\* db.add_all(users); db.commit(); db.close()
SeedUsers(i) ==
  /\ ipc[i] = "seed_users"
  /\ users' = users \o SampleUsers
  /\ ipc' = [ipc EXCEPT ![i] = "serving"]
  /\ UNCHANGED <<medicines, user_medicine, slots>>

\* The process ends and is started again: the module is imported anew, so
\* init_db runs again; requests in flight are lost, their sessions' open
\* transactions never commit.  The datastore persists.
Restart(i) ==
  /\ ipc[i] # "boot"
  /\ ipc' = [ipc EXCEPT ![i] = "boot"]
  /\ IF i = Server
       THEN /\ pc' = [r \in Req |-> "idle"]
            /\ op' = [r \in Req |-> "none"]
            /\ user' = [r \in Req |-> 0]
            /\ new' = [r \in Req |-> <<>>]
            /\ result' = [r \in Req |-> <<>>]
       ELSE UNCHANGED slots
  /\ UNCHANGED db

---------------------------------------------------------------------------
(* queries *)

\* UserMedicineRequest.validate_medicine_names
validate_medicine_names(value) == value # <<>>

\* UserExists as it would be if the handler did not test the user it found.
UserAssumed(user_id) == TRUE

\* db.query(User).filter(User.id == user_id).first() found a row
UserExists(user_id) == user_id \in 1..Len(users)

RECURSIVE NamedFrom(_, _)
NamedFrom(i, names) ==
  IF i > Len(medicines) THEN <<>>
  ELSE (IF medicines[i] \in Range(names) THEN <<i>> ELSE <<>>)
         \o NamedFrom(i + 1, names)

\* MedicinesNamed as it would be without the filter on the name.
MedicinesAll(names) == [i \in 1..Len(medicines) |-> i]

\* MedicinesNamed as it would be if every name had to match a medicine.
MedicinesNamedStrict(names) ==
  IF \A k \in 1..Len(names) : \E i \in 1..Len(medicines) : medicines[i] = names[k]
    THEN NamedFrom(1, names)
    ELSE <<>>

\* db.query(Medicine).filter(Medicine.name.in_(names)).all(), as ids
MedicinesNamed(names) == NamedFrom(1, names)

RECURSIVE Repeat(_, _)
Repeat(x, n) == IF n = 0 THEN <<>> ELSE <<x>> \o Repeat(x, n - 1)

RECURSIVE HeldFrom(_, _)
HeldFrom(i, user_id) ==
  IF i > Len(medicines) THEN <<>>
  ELSE Repeat(i, CopiesIn(<<user_id, i>>, user_medicine))
         \o HeldFrom(i + 1, user_id)

\* user.medicines loaded from the database, as ids: the join of
\* user_medicine with medicines for this user
UserMedicines(user_id) == HeldFrom(1, user_id)

\* [m.name for m in ms]
Names(ms) == [k \in 1..Len(ms) |-> medicines[ms[k]]]

\* AddNewMedicines as it would be without the test against
\* existing_medicines.
AddAllFound(found, held) == found

\* add_medicines_to_user: existing_medicines, new_medicines
AddNewMedicines(found, held) ==
  LET existing_medicines == Range(held)
      Fresh(m) == m \notin existing_medicines
  IN SelectSeq(found, Fresh)

RECURSIVE BuyLoop(_, _, _)
BuyLoop(found, held, bought) ==
  IF found = <<>> THEN bought
  ELSE IF Head(found) \notin Range(held)
         THEN BuyLoop(Tail(found), Append(held, Head(found)),
                      Append(bought, Head(found)))
         ELSE BuyLoop(Tail(found), held, bought)

\* BuyNewMedicines as it would be without the test "not in user.medicines".
BuyAllFound(found, held) == found

\* buy_medicines: the loop that appends to user.medicines and new_medicines
BuyNewMedicines(found, held) == BuyLoop(found, held, <<>>)

Rows(user_id, ms) == [k \in 1..Len(ms) |-> <<user_id, ms[k]>>]

---------------------------------------------------------------------------
(* flush and commit *)

RECURSIVE FlushFrom(_, _, _)
FlushFrom(table, rows, start) ==
  IF rows = <<>> THEN [ok |-> TRUE, table |-> table]
  ELSE IF BagIn(Head(rows), table)
         THEN [ok |-> FALSE, table |-> start]
         ELSE FlushFrom(table (+) SetToBag({Head(rows)}), Tail(rows), start)

\* Flush as it would be without the primary key on (user_id, medicine_id).
FlushNoKey(table, rows) ==
  [ok |-> TRUE, table |-> table (+) SetToBag(Range(rows))]

RECURSIVE FlushKeeping(_, _)
\* Flush as it would be if each INSERT were committed on its own.
FlushKeeping(table, rows) ==
  IF rows = <<>> THEN [ok |-> TRUE, table |-> table]
  ELSE IF BagIn(Head(rows), table)
         THEN [ok |-> FALSE, table |-> table]
         ELSE FlushKeeping(table (+) SetToBag({Head(rows)}), Tail(rows))

\* db.commit(): INSERT the rows one by one into user_medicine, whose primary
\* key is (user_id, medicine_id); a key conflict raises and the transaction
\* is rolled back when get_db closes the session.
Flush(table, rows) == FlushFrom(table, rows, table)

---------------------------------------------------------------------------
(* POST /user/add_medicines *)

\* The handler up to the commit: both lookups, the load of user.medicines
\* and new_medicines; with nothing new it returns at once the names of
\* user.medicines as loaded.
AddQuery(r, user_id, names) ==
  /\ ipc[Server] = "serving"
  /\ pc[r] \in {"idle"} \cup Terminal
  /\ validate_medicine_names(names)
  /\ op' = [op EXCEPT ![r] = "add"]
  /\ IF ~UserExists(user_id)
       THEN /\ pc' = [pc EXCEPT ![r] = "err_user"]
            /\ user' = [user EXCEPT ![r] = 0]
            /\ new' = [new EXCEPT ![r] = <<>>]
            /\ result' = [result EXCEPT ![r] = <<>>]
       ELSE LET found == MedicinesNamed(names)
                held == UserMedicines(user_id)
                fresh == AddNewMedicines(found, held)
            IN /\ user' = [user EXCEPT ![r] = user_id]
               /\ IF found = <<>>
                    THEN /\ pc' = [pc EXCEPT ![r] = "err_medicine"]
                         /\ new' = [new EXCEPT ![r] = <<>>]
                         /\ result' = [result EXCEPT ![r] = <<>>]
                    ELSE /\ new' = [new EXCEPT ![r] = fresh]
                         /\ IF fresh = <<>>
                              THEN /\ pc' = [pc EXCEPT ![r] = "done"]
                                   /\ result' = [result EXCEPT ![r] = Names(held)]
                              ELSE /\ pc' = [pc EXCEPT ![r] = "commit"]
                                   /\ result' = [result EXCEPT ![r] = <<>>]
  /\ UNCHANGED <<db, ipc>>

\* user.medicines.extend(new_medicines); db.commit()
AddCommit(r) ==
  /\ pc[r] = "commit"
  /\ op[r] = "add"
  /\ LET f == Flush(user_medicine, Rows(user[r], new[r]))
     IN /\ user_medicine' = f.table
        /\ pc' = [pc EXCEPT ![r] = IF f.ok THEN "respond" ELSE "err_storage"]
  /\ UNCHANGED <<medicines, users, ipc, op, user, new, result>>

\* AddRespond as it would be if it returned new_medicines, as buy_medicines
\* does.
AddRespondNew(r) ==
  /\ pc[r] = "respond"
  /\ op[r] = "add"
  /\ result' = [result EXCEPT ![r] = Names(new[r])]
  /\ pc' = [pc EXCEPT ![r] = "done"]
  /\ UNCHANGED <<db, ipc, op, user, new>>

\* The commit expired user: user.medicines is loaded again for the response.
AddRespond(r) ==
  /\ pc[r] = "respond"
  /\ op[r] = "add"
  /\ result' = [result EXCEPT ![r] = Names(UserMedicines(user[r]))]
  /\ pc' = [pc EXCEPT ![r] = "done"]
  /\ UNCHANGED <<db, ipc, op, user, new>>

---------------------------------------------------------------------------
(* POST /user/buy_medicines *)

\* The handler up to the commit; with nothing new it returns at once an
\* empty bought_medicines.
BuyQuery(r, user_id, names) ==
  /\ ipc[Server] = "serving"
  /\ pc[r] \in {"idle"} \cup Terminal
  /\ validate_medicine_names(names)
  /\ op' = [op EXCEPT ![r] = "buy"]
  /\ result' = [result EXCEPT ![r] = <<>>]
  /\ IF ~UserExists(user_id)
       THEN /\ pc' = [pc EXCEPT ![r] = "err_user"]
            /\ user' = [user EXCEPT ![r] = 0]
            /\ new' = [new EXCEPT ![r] = <<>>]
       ELSE LET found == MedicinesNamed(names)
                held == UserMedicines(user_id)
                bought == BuyNewMedicines(found, held)
            IN /\ user' = [user EXCEPT ![r] = user_id]
               /\ IF found = <<>>
                    THEN /\ pc' = [pc EXCEPT ![r] = "err_medicine"]
                         /\ new' = [new EXCEPT ![r] = <<>>]
                    ELSE /\ new' = [new EXCEPT ![r] = bought]
                         /\ pc' = [pc EXCEPT ![r] = IF bought = <<>> THEN "done"
                                                                     ELSE "commit"]
  /\ UNCHANGED <<db, ipc>>

\* db.commit() of the rows appended to user.medicines
BuyCommit(r) ==
  /\ pc[r] = "commit"
  /\ op[r] = "buy"
  /\ LET f == Flush(user_medicine, Rows(user[r], new[r]))
     IN /\ user_medicine' = f.table
        /\ pc' = [pc EXCEPT ![r] = IF f.ok THEN "respond" ELSE "err_storage"]
  /\ UNCHANGED <<medicines, users, ipc, op, user, new, result>>

\* The response names new_medicines, whose names are read again after the
\* commit.
BuyRespond(r) ==
  /\ pc[r] = "respond"
  /\ op[r] = "buy"
  /\ result' = [result EXCEPT ![r] = Names(new[r])]
  /\ pc' = [pc EXCEPT ![r] = "done"]
  /\ UNCHANGED <<db, ipc, op, user, new>>

---------------------------------------------------------------------------
(* specifications *)

\* The history of the observed client, which sends its calls one after the
\* other to slot Observed.
Observed == CHOOSE r \in Req : \A q \in Req : r <= q

Observe(o, user_id, names) ==
  /\ call' = [op |-> o, user_id |-> user_id, medicine_names |-> names]
  /\ before' = user_medicine
  /\ again' = (pc[Observed] = "done"
               /\ call = [op |-> o, user_id |-> user_id, medicine_names |-> names])

\* One process: init_db at start, then concurrent requests; restarts.
Next ==
  \/ CheckMedicines(Server) /\ UNCHANGED history
  \/ SeedMedicines(Server) /\ UNCHANGED history
  \/ CheckUsers(Server) /\ UNCHANGED history
  \/ SeedUsers(Server) /\ UNCHANGED history
  \/ Restart(Server) /\ UNCHANGED history
  \/ \E r \in Req, u \in RaceUserIds, n \in RaceLists :
       AddQuery(r, u, n) /\ UNCHANGED history
  \/ \E r \in Req : AddCommit(r) /\ UNCHANGED history
  \/ \E r \in Req : AddRespond(r) /\ UNCHANGED history
  \/ \E r \in Req, u \in RaceUserIds, n \in RaceLists :
       BuyQuery(r, u, n) /\ UNCHANGED history
  \/ \E r \in Req : BuyCommit(r) /\ UNCHANGED history
  \/ \E r \in Req : BuyRespond(r) /\ UNCHANGED history

Spec == Init /\ [][Next]_vars

\* One process serving one client that waits for each response before its
\* next call.
NextSeq ==
  \/ CheckMedicines(Server) /\ UNCHANGED history
  \/ SeedMedicines(Server) /\ UNCHANGED history
  \/ CheckUsers(Server) /\ UNCHANGED history
  \/ SeedUsers(Server) /\ UNCHANGED history
  \/ \E u \in ClientUserIds, n \in NameLists :
       AddQuery(Observed, u, n) /\ Observe("add", u, n)
  \/ AddCommit(Observed) /\ UNCHANGED history
  \/ AddRespond(Observed) /\ UNCHANGED history
  \/ \E u \in ClientUserIds, n \in NameLists :
       BuyQuery(Observed, u, n) /\ Observe("buy", u, n)
  \/ BuyCommit(Observed) /\ UNCHANGED history
  \/ BuyRespond(Observed) /\ UNCHANGED history

SpecSeq == Init /\ [][NextSeq]_vars

\* Several processes started against one datastore, each running init_db.
NextMulti ==
  \E i \in Inst :
    \/ CheckMedicines(i) /\ UNCHANGED history
    \/ SeedMedicines(i) /\ UNCHANGED history
    \/ CheckUsers(i) /\ UNCHANGED history
    \/ SeedUsers(i) /\ UNCHANGED history
    \/ Restart(i) /\ UNCHANGED history

SpecMulti == Init /\ [][NextMulti]_vars

---------------------------------------------------------------------------
(* properties *)

\* The ids of the medicines one of the names matches.
Resolved(names) == {i \in 1..Len(medicines) : medicines[i] \in Range(names)}

\* The ids of the medicines user_id holds in an association table.
HeldIn(table, user_id) ==
  {i \in 1..Len(medicines) : CopiesIn(<<user_id, i>>, table) > 0}

\* One row for user_id per medicine of ms.
RowsFor(user_id, ms) == SetToBag({<<user_id, i>> : i \in ms})

NameSet(ms) == {medicines[i] : i \in ms}

NoRepeats(s) == \A i, j \in 1..Len(s) : s[i] = s[j] => i = j

Known(user_id) == user_id \in 1..Len(users)

\* C1: whatever the interleaving of add_medicines and buy_medicines calls,
\* user_medicine holds at most one row for each (user_id, medicine_id) pair.
NoDuplicateAssociation ==
  \A row \in BagToSet(user_medicine) : CopiesIn(row, user_medicine) = 1

\* Two concurrent requests computed the same new row for the same user; one
\* committed it, the other was refused.
RaceOnOnePair ==
  \E r, q \in Req :
    /\ r # q
    /\ pc[r] \in {"respond", "done"}
    /\ pc[q] = "err_storage"
    /\ user[r] = user[q]
    /\ Range(new[r]) \cap Range(new[q]) # {}

\* C9: the commit of a request is all or nothing: the step that ends a
\* request's commit either adds all its new rows to user_medicine, or, when
\* it ends in an error, adds none.
CommitAllOrNothing ==
  [][\A r \in Req :
       (pc[r] = "commit" /\ pc'[r] # "commit") =>
         \/ /\ pc'[r] = "respond"
            /\ user_medicine' = user_medicine (+) RowsFor(user[r], Range(new[r]))
         \/ /\ pc'[r] # "respond"
            /\ user_medicine' = user_medicine]_vars

\* A request with two new rows was refused for its second row, and its first
\* row is not in the table.
RefusedWithNothingKept ==
  \E r \in Req :
    /\ pc[r] = "err_storage"
    /\ Len(new[r]) = 2
    /\ ~BagIn(<<user[r], new[r][1]>>, user_medicine)
    /\ BagIn(<<user[r], new[r][2]>>, user_medicine)

\* C7: over any number of runs of init_db one after the other, a table
\* that has rows gets no more, medicines holds nothing or exactly the five
\* samples and users nothing or exactly the four, and a process that serves
\* has both.
SeedingIdempotent ==
  [][/\ medicines # <<>> => medicines' = medicines
     /\ users # <<>> => users' = users
     /\ medicines' \in {<<>>, SampleMedicines}
     /\ users' \in {<<>>, SampleUsers}
     /\ ipc'[Server] = "serving" =>
          medicines' = SampleMedicines /\ users' = SampleUsers]_vars

\* A later run of init_db has passed the medicines test, both tables being
\* seeded already.
LaterRunSkipsSeeding ==
  /\ ipc[Server] = "check_users"
  /\ medicines = SampleMedicines
  /\ users = SampleUsers

\* C8: when several processes run init_db against one datastore, whatever
\* the interleaving, once all of them serve medicines holds the five samples
\* and users the four, none twice.
SeedingRaceSafe ==
  (\A i \in Inst : ipc[i] = "serving") =>
    medicines = SampleMedicines /\ users = SampleUsers

\* An add_medicines call for an existing user with a matching name.
AddCall ==
  /\ call.op = "add"
  /\ Known(call.user_id)
  /\ Resolved(call.medicine_names) # {}

\* C2: an add_medicines call for an existing user with a matching name
\* succeeds; repeated once answered, it is answered at once with the same
\* list, and user_medicine stays as the first call left it: nothing is
\* inserted.
AddIdempotent ==
  [][/\ (AddCall' /\ pc'[Observed] \in Terminal) => pc'[Observed] = "done"
     /\ (AddCall /\ pc[Observed] = "done" /\ call' = call) =>
          /\ pc'[Observed] = "done"
          /\ new'[Observed] = <<>>
          /\ user_medicine' = user_medicine
          /\ result'[Observed] = result[Observed]]_vars

\* The second of two identical add_medicines calls has been answered, the
\* first having inserted the rows.
AddRepeated ==
  /\ again
  /\ call.op = "add"
  /\ pc[Observed] = "done"
  /\ result[Observed] # <<>>
  /\ Resolved(call.medicine_names) \subseteq HeldIn(user_medicine, call.user_id)

\* C3: a buy_medicines call for an existing user with a matching name
\* succeeds; it returns, each once, the names of the matched medicines the
\* user did not hold before, and has inserted one row for each; repeated at
\* once, it returns the empty list and inserts nothing.
BuyReturnsNew ==
  (/\ call.op = "buy"
   /\ pc[Observed] \in Terminal
   /\ Known(call.user_id)
   /\ Resolved(call.medicine_names) # {}) =>
    LET fresh == Resolved(call.medicine_names) \ HeldIn(before, call.user_id)
    IN /\ pc[Observed] = "done"
       /\ NoRepeats(result[Observed])
       /\ Range(result[Observed]) = NameSet(fresh)
       /\ user_medicine = before (+) RowsFor(call.user_id, fresh)
       /\ again => result[Observed] = <<>> /\ user_medicine = before

\* The second of two identical buy_medicines calls has been answered, the
\* first having bought something.
BuyRepeated ==
  /\ again
  /\ call.op = "buy"
  /\ pc[Observed] = "done"
  /\ HeldIn(before, call.user_id) \cap Resolved(call.medicine_names) # {}

\* C4: a successful add_medicines call returns, each once, the names of all
\* the medicines the user holds after it: those held before and those just
\* inserted; also when it inserted nothing.
AddReturnsAll ==
  (call.op = "add" /\ pc[Observed] = "done") =>
    LET held == HeldIn(before, call.user_id)
        fresh == Resolved(call.medicine_names) \ held
    IN /\ user_medicine = before (+) RowsFor(call.user_id, fresh)
       /\ NoRepeats(result[Observed])
       /\ Range(result[Observed]) = NameSet(held \cup fresh)
       /\ Range(result[Observed]) = NameSet(HeldIn(user_medicine, call.user_id))

\* An add_medicines call for a user who held a medicine has inserted another.
AddedToHeld ==
  /\ call.op = "add"
  /\ pc[Observed] = "done"
  /\ HeldIn(before, call.user_id) # {}
  /\ new[Observed] # <<>>
  /\ Len(result[Observed]) > Len(new[Observed])

\* C5: a call, of either endpoint, whose user_id matches no user ends with
\* "User not found", whatever the names are, and leaves user_medicine as it
\* was.
UnknownUserNotFound ==
  (pc[Observed] # "idle" /\ ~Known(call.user_id)) =>
    pc[Observed] = "err_user" /\ user_medicine = before

\* A call with an unknown user_id and no matching name was refused, in a
\* state where users exist and hold medicines.
UnknownUserRefused ==
  /\ pc[Observed] = "err_user"
  /\ call.user_id = 5
  /\ Resolved(call.medicine_names) = {}
  /\ user_medicine # EmptyBag

\* C6: a call, of either endpoint, for an existing user whose names match no
\* medicine ends with "One or more medicines not found" and leaves
\* user_medicine as it was.
NoMedicineNotFound ==
  (/\ pc[Observed] # "idle"
   /\ Known(call.user_id)
   /\ Resolved(call.medicine_names) = {}) =>
    pc[Observed] = "err_medicine" /\ user_medicine = before

\* A call for an existing user who holds medicines, with two names that
\* match nothing, was refused.
NoMedicineRefused ==
  /\ pc[Observed] = "err_medicine"
  /\ Known(call.user_id)
  /\ Len(call.medicine_names) = 2
  /\ HeldIn(user_medicine, call.user_id) # {}

\* The names of the call that match no medicine.
Unresolved(names) == {n \in Range(names) : \A i \in 1..Len(medicines) : medicines[i] # n}

Mixed ==
  /\ Known(call.user_id)
  /\ Resolved(call.medicine_names) # {}
  /\ Unresolved(call.medicine_names) # {}

\* C10: a call, of either endpoint, for an existing user whose names partly
\* match and partly do not ends without error; it has inserted a row for each
\* matched medicine the user did not hold and no other row, and its result
\* names medicines only, none of the unmatched names.
MixedNamesSucceed ==
  (Mixed /\ pc[Observed] # "idle") =>
    LET fresh == Resolved(call.medicine_names) \ HeldIn(before, call.user_id)
    IN /\ pc[Observed] \in {"commit", "respond", "done"}
       /\ Range(new[Observed]) = fresh
       /\ pc[Observed] = "done" =>
            /\ user_medicine = before (+) RowsFor(call.user_id, fresh)
            /\ Range(result[Observed]) \subseteq Range(medicines)
            /\ Range(result[Observed]) \cap Unresolved(call.medicine_names) = {}
            /\ call.op = "buy" => Range(result[Observed]) = NameSet(fresh)

\* A call with a matching and an unmatched name has inserted a row.
MixedInserted ==
  /\ Mixed
  /\ pc[Observed] = "done"
  /\ new[Observed] # <<>>
  /\ user_medicine # before

====
